---- MODULE Spec2Model ----
(***************************************************************************)
(* n8n-nodes-jmap: the polling trigger (JmapTrigger.poll) and the mail     *)
(* operations of GenericFunctions (getMailboxes ... sendEmail), modelled   *)
(* as state machines whose steps are the awaits of the TypeScript source.  *)
(*                                                                         *)
(* Spec      the poller: one trigger instance, cycles never overlap, the   *)
(*           JMAP server is an environment that may answer Email/query and *)
(*           Email/get with any emails of the store, in any order, at most *)
(*           one page of them.                                             *)
(* SpecRfc   the poller against a server that answers Email/query as       *)
(*           RFC 8621 says (filter, sort, limit) and lists Email/get in    *)
(*           any order.                                                    *)
(* MailSpec  the mail operations: one operation at a time, the server may  *)
(*           answer a batch request with any response envelope.            *)
(* ExecSpec  Jmap.execute: the session lookup, then the loop over the      *)
(*           input items, each item's operation succeeding or throwing.    *)
(* AttachSpec  getAttachments: the email's attachment list is filtered and *)
(*           the selected blobs are downloaded one after the other.        *)
(* LabelSpec addLabel, removeLabel and moveEmail on one email, against a   *)
(*           server that applies the Email/set patches they send.          *)
(* ReplySpec the reply operation of Jmap.execute: the original email is    *)
(*           fetched, the reply is built from it and handed to sendEmail.  *)
(* TransportSpec  makeJmapRequest, getJmapSession, jmapApiRequest and      *)
(*           downloadBlob: the HTTP requests sent under each credential    *)
(*           configuration, and what is made of the replies.               *)
(* KeywordSpec  markAsRead and markAsUnread on one email, against a server *)
(*           that applies the Email/set update they send.                  *)
(* SpecRfcQuiet  SpecRfc with mail arriving between poll cycles only.      *)
(* GetLabelsSpec  getLabels: the email's mailboxIds are fetched and looked *)
(*           up in the mailbox list.                                       *)
(***************************************************************************)
EXTENDS Integers, Sequences, FiniteSets, TLC

\* ------------------------------------------------------------------ bounds
\* Emails the server ever holds; an email's id is its index in the store.
MaxEmails == 3
\* receivedAt strings are 1..MaxStamp.
MaxStamp == 3
\* Entries of a response envelope (methodResponses).
MaxResponses == 3
\* Input items of one execution of the node.
MaxItems == 3
\* Attachments of the email getAttachments is called for.
MaxAttachments == 2
\* Label operations performed on the email, one after the other.
MaxLabelOps == 2
\* Keys of the mailboxIds of the email getLabels reads, and mailboxes listed.
MaxLabels == 2

\* ------------------------------------------------------- program constants
\* `undefined`: webhookData.lastProcessedTime before the first emitting cycle.
Unset == 0
\* The page size queryEmails is called with. The source asks for 100; the
\* model scales it to 2 so that a store of MaxEmails can exceed one page.
PollLimit == 2

VARIABLES
    store,              \* server: store[i] is the receivedAt string of email i
    lastProcessedTime,  \* webhookData.lastProcessedTime (workflow static data)
    pc,                 \* poll(): "idle" or the await it is suspended at
    options,            \* poll(): the `options` node parameter of this cycle
    startTime,          \* poll(): const lastProcessedTime, read at the start
    ids,                \* poll(): ids returned by queryEmails
    emails,             \* poll(): list returned by getEmails (email ids)
    requests,           \* JMAP calls issued by the current / last cycle
    outcome,            \* how the last cycle ended: "null", "data", "error"
    batch,              \* the batch the last cycle returned (email ids)
    emittedBefore       \* ids returned by the cycles before the last one

pollVars == <<store, lastProcessedTime, pc, options, startTime, ids, emails,
              requests, outcome, batch, emittedBefore>>

VARIABLES
    op,                 \* the mail operation running ("none" before the first)
    opPc,               \* "idle", the await it is suspended at, or "done"
    mailboxes,          \* sendEmail / createDraft: the list getMailboxes returned
    sent,               \* request envelopes the operation has POSTed
    response,           \* methodResponses of the envelope the operation ended on
    result              \* what the operation returned or threw

mailVars == <<op, opPc, mailboxes, sent, response, result>>

VARIABLES
    items,              \* execute(): number of input items (items.length)
    operation,          \* execute(): the `operation` node parameter
    continueOnFail,     \* execute(): what this.continueOnFail() answers
    serverUrl,          \* the credential's server URL, as the user typed it
    session,            \* the session object the server answered GET /session with
    accountId,          \* execute(): const accountId
    execPc,             \* "idle", the await execute() is suspended at, or "done"
    index,              \* execute(): the loop variable i
    returnData,         \* execute(): const returnData
    execOutcome,        \* "none", "returned" or "thrown"
    http                \* HTTP requests made by the execution: [method, url]

execVars == <<items, operation, continueOnFail, serverUrl, session, accountId,
              execPc, index, returnData, execOutcome, http>>

VARIABLES
    attachmentOptions,  \* getAttachments: the `options` argument
    attachments,        \* getAttachments: email.attachments, as fetched
    attPc,              \* "idle", the await getAttachments is suspended at, "done"
    cursor,             \* getAttachments: position of the for-of loop
    results,            \* getAttachments: const results (attachment positions)
    downloads,          \* downloadBlob calls started, in order
    attOutcome,         \* "none", "returned" or "thrown"
    attachmentResults   \* what the caller of getAttachments received

attachVars == <<attachmentOptions, attachments, attPc, cursor, results,
                downloads, attOutcome, attachmentResults>>

VARIABLES
    mailboxIds,         \* server: the mailboxIds of the email (a set of ids)
    initialMailboxIds,  \* server: mailboxIds before the first label operation
    labelPc,            \* "idle", or "call" while a label operation awaits
    labelCall,          \* the label operation awaiting its response
    labelLog            \* label operations that returned, in order

labelVars == <<mailboxIds, initialMailboxIds, labelPc, labelCall, labelLog>>

VARIABLES
    labelsPc,           \* "idle", the await getLabels is suspended at, or "done"
    emailReturned,      \* getLabels: "yes" / "no" once getEmails has returned
    emailKeys,          \* getLabels: the keys of email.mailboxIds, as received
    allMailboxes,       \* getLabels: const allMailboxes
    labels,             \* getLabels: the array it returns
    labelsOutcome       \* "none", "returned", or the error getLabels threw

getLabelsVars == <<labelsPc, emailReturned, emailKeys, allMailboxes, labels,
                   labelsOutcome>>

VARIABLES
    replyPc,            \* "idle", the await reply is suspended at, or "done"
    originalEmail,      \* reply: const [originalEmail], NoEmail when undefined
    email,              \* reply: const email, NoEmail before it is built
    replyRequests,      \* reply: method names of the requests sent, in order
    replyOutcome        \* "none", "returned", or the error thrown

replyVars == <<replyPc, originalEmail, email, replyRequests, replyOutcome>>

VARIABLES
    authType,           \* node parameter 'authentication'
    credentials,        \* the stored jmapApi credentials
    wire,               \* HTTP requests sent since the function was called
    httpPc,             \* "idle", the await the function is suspended at, "done"
    httpFunction,       \* the exported function running
    httpReply,          \* the body the server answered the batch POST with
    httpOutcome         \* "none", or what the function returned or threw

transportVars == <<authType, credentials, wire, httpPc, httpFunction, httpReply,
                   httpOutcome>>

VARIABLES
    keywords,           \* server: the keywords set on the email
    keywordsBefore,     \* the keywords when the running operation started
    keywordPc,          \* "idle", "Email/set" while awaited, or "done"
    keywordCall         \* the operation running and the keywords map it sent

keywordVars == <<keywords, keywordsBefore, keywordPc, keywordCall>>

vars == <<pollVars, mailVars, execVars, attachVars, labelVars,
          getLabelsVars, replyVars, transportVars, keywordVars>>

\* What the steps of each component leave alone.
exceptPoll == <<mailVars, execVars, attachVars, labelVars,
                getLabelsVars, replyVars, transportVars, keywordVars>>
exceptMail == <<pollVars, execVars, attachVars, labelVars,
                getLabelsVars, replyVars, transportVars, keywordVars>>
exceptExec == <<pollVars, mailVars, attachVars, labelVars,
                getLabelsVars, replyVars, transportVars, keywordVars>>
exceptAttach == <<pollVars, mailVars, execVars, labelVars,
                  getLabelsVars, replyVars, transportVars,
                  keywordVars>>
exceptLabel == <<pollVars, mailVars, execVars, attachVars,
                 getLabelsVars, replyVars, transportVars,
                 keywordVars>>
exceptGetLabels == <<pollVars, mailVars, execVars, attachVars,
                     labelVars, replyVars, transportVars,
                     keywordVars>>
exceptReply == <<pollVars, mailVars, execVars, attachVars, labelVars,
                 getLabelsVars, transportVars, keywordVars>>
exceptTransport == <<pollVars, mailVars, execVars, attachVars,
                     labelVars, getLabelsVars, replyVars,
                     keywordVars>>
exceptKeyword == <<pollVars, mailVars, execVars, attachVars,
                   labelVars, getLabelsVars, replyVars,
                   transportVars>>

\* ----------------------------------------------------------------- helpers
Stamps == 1..MaxStamp

Range(s) == {s[i] : i \in 1..Len(s)}

\* Sequences without repetition over a finite set S, of length at most n.
RECURSIVE DistinctSeqs(_, _)
DistinctSeqs(S, n) ==
    IF S = {} \/ n = 0 THEN {<<>>}
    ELSE {<<>>} \cup
         UNION {{<<x>> \o t : t \in DistinctSeqs(S \ {x}, n - 1)} : x \in S}

\* new Date(s).getTime(): two spellings of a date-time string denote one
\* instant (such as "...:00Z" and "...:00.000Z"), so parsing is not injective.
DateGetTime(s) == (s + 1) \div 2

\* email.receivedAt of a fetched email.
ReceivedAt(e) == store[e]

\* `if (lastProcessedTime)`: a non-empty string is truthy, undefined is not.
HasLastProcessedTime(last) == last # Unset

\* The filter written with >= (a boundary email passes).
NewEmailsInclusive(list, last) ==
    IF HasLastProcessedTime(last)
    THEN SelectSeq(list, LAMBDA e : DateGetTime(ReceivedAt(e)) >= DateGetTime(last))
    ELSE list

\* emails.filter(email => getTime(email.receivedAt) > getTime(lastProcessedTime))
\* when lastProcessedTime is set, else all emails.
NewEmails(list, last) ==
    IF HasLastProcessedTime(last)
    THEN SelectSeq(list, LAMBDA e : DateGetTime(ReceivedAt(e)) > DateGetTime(last))
    ELSE list

\* The check left out: poll() goes on to getEmails with no id.
NoIdsNever(list) == FALSE

\* `if (ids.length === 0) return null`
NoIds(list) == Len(list) = 0

\* `if (emails.length === 0) return null`
NoEmails(list) == Len(list) = 0

\* The filter of the Email/query call: `after` is set only when a watermark
\* exists. The inMailbox conjunct (event newEmailInMailbox) scopes the query to
\* one mailbox: the store stands for the emails of the monitored scope.
BuildFilter(last) ==
    [after |-> IF HasLastProcessedTime(last) THEN last ELSE Unset]

\* webhookData.lastProcessedTime = emails[0].receivedAt
MostRecentEmail(list) == list[1]

\* ---------------------------------------------------------- mail operations
\* JMAP_CAPABILITIES
CORE == "urn:ietf:params:jmap:core"
MAIL == "urn:ietf:params:jmap:mail"
SUBMISSION == "urn:ietf:params:jmap:submission"

\* The operations of GenericFunctions that issue one batch request and read
\* its envelope (sendEmail and createDraft look the drafts mailbox up first).
SingleCallOps ==
    {"getMailboxes", "queryEmails", "getEmails", "getIdentities",
     "updateEmailKeywords", "moveEmail", "addLabel", "removeLabel",
     "deleteEmails", "getThreads"}
DraftOps == {"sendEmail", "createDraft"}
MailOps == SingleCallOps \cup DraftOps

\* The method each single-call operation invokes, and compares
\* methodResponses[0][0] with.
MethodOf(o) ==
    CASE o = "getMailboxes" -> "Mailbox/get"
      [] o = "queryEmails" -> "Email/query"
      [] o = "getEmails" -> "Email/get"
      [] o = "getIdentities" -> "Identity/get"
      [] o = "getThreads" -> "Thread/get"
      [] OTHER -> "Email/set"

\* The message of the Error a single-call operation throws on another name.
FailureOf(o) ==
    CASE o = "getMailboxes" -> "Failed to get mailboxes"
      [] o = "queryEmails" -> "Failed to query emails"
      [] o = "getEmails" -> "Failed to get emails"
      [] o = "getIdentities" -> "Failed to get identities"
      [] o = "updateEmailKeywords" -> "Failed to update email"
      [] o = "moveEmail" -> "Failed to move email"
      [] o = "addLabel" -> "Failed to add label"
      [] o = "removeLabel" -> "Failed to remove label"
      [] o = "deleteEmails" -> "Failed to delete emails"
      [] OTHER -> "Failed to get threads"

\* The `using` list: jmapApiRequest's default, unless the caller passes one.
DefaultUsing == {CORE, MAIL}

\* Every operation left to the default list.
UsingDefaultOnly(o) == DefaultUsing

UsingOf(o) ==
    CASE o = "getIdentities" -> {CORE, SUBMISSION}
      [] o = "sendEmail" -> {CORE, MAIL, SUBMISSION}
      [] OTHER -> DefaultUsing

\* A method call [name, arguments, callId]; of the arguments the model keeps
\* what the draft and the submission are made of.
NoArgs == [create |-> "none", mailboxId |-> "none", keyword |-> "none",
           emailId |-> "none", onSuccessDestroyEmail |-> "none"]
Call(name, args, callId) == [name |-> name, args |-> args, callId |-> callId]
Envelope(using, calls) == [using |-> using, methodCalls |-> calls]

SingleCallRequest(o) ==
    Envelope(UsingOf(o), <<Call(MethodOf(o), NoArgs, "c1")>>)

DraftCreate(mailboxId) ==
    [NoArgs EXCEPT !.create = "draft", !.mailboxId = mailboxId,
                   !.keyword = "$draft"]

\* The send envelope with its two calls in the other order.
SendRequestSubmissionFirst(mailboxId) ==
    Envelope({CORE, MAIL, SUBMISSION},
             <<Call("EmailSubmission/set",
                    [NoArgs EXCEPT !.create = "send", !.emailId = "#draft",
                                   !.onSuccessDestroyEmail = "#send"],
                    "c2"),
               Call("Email/set", DraftCreate(mailboxId), "c1")>>)

\* sendEmail, lines 343-358.
SendRequest(mailboxId) ==
    Envelope({CORE, MAIL, SUBMISSION},
             <<Call("Email/set", DraftCreate(mailboxId), "c1"),
               Call("EmailSubmission/set",
                    [NoArgs EXCEPT !.create = "send", !.emailId = "#draft",
                                   !.onSuccessDestroyEmail = "#send"],
                    "c2")>>)

CreateDraftRequest(mailboxId) ==
    Envelope(DefaultUsing, <<Call("Email/set", DraftCreate(mailboxId), "c1")>>)

\* Mailboxes of the account; role "none" is a null role.
NoMailbox == [id |-> "none", role |-> "none"]
Mailboxes ==
    {[id |-> "mb1", role |-> "inbox"], [id |-> "mb2", role |-> "drafts"],
     [id |-> "mb3", role |-> "none"]}

\* A lookup that ignores the role and takes the first mailbox.
FindAnyMailbox(list, role) ==
    IF Len(list) = 0 THEN NoMailbox ELSE Head(list)

\* mailboxes.find((mb) => mb.role === role); NoMailbox stands for undefined.
RECURSIVE FindMailboxByRole(_, _)
FindMailboxByRole(list, role) ==
    IF Len(list) = 0 THEN NoMailbox
    ELSE IF Head(list).role = role THEN Head(list)
    ELSE FindMailboxByRole(Tail(list), role)

\* What an operation returns (status "ok") or throws (status "error": the
\* Error's message, and the payload stringified into the message, if any).
NoResult == [status |-> "none", value |-> "none", message |-> "none",
             detail |-> "none"]
Success(v) == [NoResult EXCEPT !.status = "ok", !.value = v]
Failure(m, d) == [NoResult EXCEPT !.status = "error", !.message = m,
                                  !.detail = d]

\* Payloads of response entries: results r1 (an Email/set result that has
\* created.draft), r2 (one that has not), and error objects e1, e2.
ResultPayloads == {"r1", "r2"}
ErrorPayloads == {"e1", "e2"}
CreatedDraft(payload) == IF payload = "r1" THEN "draft1" ELSE "none"

\* const methodResponse = response.methodResponses[0];
\* if (methodResponse[0] === '<method>') return methodResponse[1] (or .list);
\* throw new Error('Failed to ...'). An empty array makes the read throw.
SingleCallResult(o, env) ==
    IF Len(env) = 0 THEN Failure("TypeError", "none")
    ELSE IF env[1].name = MethodOf(o) THEN Success(env[1].payload)
    ELSE Failure(FailureOf(o), "none")

\* createDraft, lines 393-406.
CreateDraftResult(env) ==
    IF Len(env) = 0 THEN Failure("TypeError", "none")
    ELSE IF env[1].name = "error" THEN Failure("JMAP error", env[1].payload)
    ELSE IF env[1].name = "Email/set" /\ CreatedDraft(env[1].payload) # "none"
    THEN Success(CreatedDraft(env[1].payload))
    ELSE Success(env[1].payload)

\* sendEmail, lines 360-366: throw on the first entry named "error", then
\* return methodResponses[1][1].
ErrorEntries(env) == {i \in 1..Len(env) : env[i].name = "error"}
FirstError(env) == CHOOSE i \in ErrorEntries(env) : \A j \in ErrorEntries(env) : i <= j

SendEmailResult(env) ==
    IF ErrorEntries(env) # {}
    THEN Failure("JMAP error", env[FirstError(env)].payload)
    ELSE IF Len(env) < 2 THEN Failure("TypeError", "none")
    ELSE Success(env[2].payload)

\* ------------------------------------------------- transport and session
\* A URL is the sequence of its parts: the origin, then path segments; a
\* final part "/" is a trailing slash.
CredentialUrls ==
    {<<"https://mail.example", "/jmap">>, <<"https://mail.example", "/jmap", "/">>}
ApiUrls ==
    {<<"https://mail.example", "/jmap">>, <<"https://mail.example", "/api">>}

\* (credentials.serverUrl as string).replace(/\/$/, '')
GetServerUrl(credentialUrl) ==
    IF Len(credentialUrl) > 0 /\ credentialUrl[Len(credentialUrl)] = "/"
    THEN SubSeq(credentialUrl, 1, Len(credentialUrl) - 1)
    ELSE credentialUrl

\* endpoint.startsWith('http') ? endpoint : `${serverUrl}${endpoint}`
StartsWithHttp(endpoint) ==
    Len(endpoint) > 0 /\ endpoint[1] = "https://mail.example"
RequestUrl(credentialUrl, endpoint) ==
    IF StartsWithHttp(endpoint) THEN endpoint
    ELSE GetServerUrl(credentialUrl) \o endpoint

HttpRequest(method, url) == [method |-> method, url |-> url]
\* getJmapSession: makeJmapRequest(this, 'GET', '/session')
SessionRequest(credentialUrl) ==
    HttpRequest("GET", RequestUrl(credentialUrl, <<"/session">>))
\* jmapApiRequest: makeJmapRequest(this, 'POST', '', body)
BatchRequest(credentialUrl) ==
    HttpRequest("POST", RequestUrl(credentialUrl, <<>>))

\* IJmapSession, of which the client reads primaryAccounts and accounts (and
\* downloadUrl). accounts is the sequence of its keys as the JSON text lists
\* them; primaryAccounts may be missing, or lack the mail entry ("none").
AccountIds == {"a1", "a2", "7"}
NoPrimaryAccounts == [defined |-> FALSE, mail |-> "none"]
PrimaryAccountMaps ==
    {NoPrimaryAccounts} \cup {[defined |-> TRUE, mail |-> a] : a \in AccountIds \cup {"none"}}
NoSession == [apiUrl |-> <<>>, primaryAccounts |-> NoPrimaryAccounts, accounts |-> <<>>]
Sessions ==
    [apiUrl : ApiUrls, primaryAccounts : PrimaryAccountMaps,
     accounts : DistinctSeqs(AccountIds, 2)]

\* Object.keys(obj): integer-like keys come first, then the others in the
\* order they were inserted.
IntegerLike(key) == key = "7"
ObjectKeys(obj) ==
    SelectSeq(obj, IntegerLike) \o SelectSeq(obj, LAMBDA k : ~IntegerLike(k))

\* A lookup that skips primaryAccounts and takes the first account.
FirstAccountOnly(sess) ==
    IF Len(ObjectKeys(sess.accounts)) > 0
    THEN Success(ObjectKeys(sess.accounts)[1])
    ELSE Failure("No JMAP account found", "none")

\* getPrimaryAccountId, after the session has been fetched.
GetPrimaryAccountId(sess) ==
    IF sess.primaryAccounts.defined /\ sess.primaryAccounts.mail # "none"
    THEN Success(sess.primaryAccounts.mail)
    ELSE IF Len(ObjectKeys(sess.accounts)) > 0
    THEN Success(ObjectKeys(sess.accounts)[1])
    ELSE Failure("No JMAP account found", "none")

\* --------------------------------------------------------- Jmap.execute()
ExecOperations == {"getMany", "get"}
\* const singleExecutionOperations = ['getMany']
SingleExecutionOperations == {"getMany"}
\* A loop bound that ignores singleExecutionOperations.
ItemsToProcessAll(o, n) == n

\* const itemsToProcess = singleExecutionOperations.includes(operation) ? 1 : items.length
ItemsToProcess(o, n) == IF o \in SingleExecutionOperations THEN 1 ELSE n

\* An entry of returnData: a result of item `i`, or its { error } object.
ItemData(i) == [item |-> i, error |-> FALSE]
ItemError(i) == [item |-> i, error |-> TRUE]

\* A catch block that rethrows whatever continueOnFail() answers.
RethrowsAlways(cof) == TRUE

\* catch (error) { if (this.continueOnFail()) { ...; continue; } throw error; }
Rethrows(cof) == ~cof

\* ------------------------------------------------------------ attachments
\* A string is the sequence of its characters. The MIME types and the filter
\* strings the model draws from: image/png, IMAGE/PNG, image/jpeg and
\* text/plain, shortened to i/p, I/P, i/j and t/p.
MimeTypes ==
    {<<"i", "/", "p">>, <<"I", "/", "P">>, <<"i", "/", "j">>, <<"t", "/", "p">>}
MimeTypeFilters ==
    {<<>>, <<" ">>, <<",">>,
     <<"i", "/", "p">>,
     <<"I", "/", "*">>,
     <<" ", "i", "/", "*", " ">>,
     <<"i", "/">>,
     <<"*", "/", "*">>,
     <<"t", "/", "p", ",", " ", "i", "/", "j">>,
     <<"i", "/", "J", ",", ",", "t", "/", "*">>}

\* String.prototype.toLowerCase
LowerChar(c) ==
    CASE c = "I" -> "i" [] c = "J" -> "j" [] c = "P" -> "p" [] c = "T" -> "t"
      [] OTHER -> c
ToLowerCase(str) == [k \in 1..Len(str) |-> LowerChar(str[k])]

\* String.prototype.trim
RECURSIVE TrimStart(_)
TrimStart(str) ==
    IF Len(str) > 0 /\ str[1] = " " THEN TrimStart(Tail(str)) ELSE str
RECURSIVE TrimEnd(_)
TrimEnd(str) ==
    IF Len(str) > 0 /\ str[Len(str)] = " "
    THEN TrimEnd(SubSeq(str, 1, Len(str) - 1)) ELSE str
Trim(str) == TrimEnd(TrimStart(str))

\* str.split(','): the pieces between the commas; '' splits to [''].
RECURSIVE Split(_)
Split(str) ==
    LET commas == {k \in 1..Len(str) : str[k] = ","}
    IN  IF commas = {} THEN <<str>>
        ELSE LET k == CHOOSE c \in commas : \A d \in commas : c <= d
             IN  <<SubSeq(str, 1, k - 1)>> \o Split(SubSeq(str, k + 1, Len(str)))

EndsWith(str, suffix) ==
    /\ Len(str) >= Len(suffix)
    /\ SubSeq(str, Len(str) - Len(suffix) + 1, Len(str)) = suffix
StartsWith(str, prefix) ==
    /\ Len(str) >= Len(prefix)
    /\ SubSeq(str, 1, Len(prefix)) = prefix

\* A comparison that knows no wildcard.
MatchesExactly(mimeType, filter) ==
    ToLowerCase(mimeType) = Trim(ToLowerCase(filter))

\* matchesMimeType
MatchesMimeType(mimeType, filter) ==
    LET normalizedMime == ToLowerCase(mimeType)
        normalizedFilter == Trim(ToLowerCase(filter))
    IN  IF EndsWith(normalizedFilter, <<"/", "*">>)
        THEN StartsWith(normalizedMime,
                        SubSeq(normalizedFilter, 1, Len(normalizedFilter) - 1))
        ELSE normalizedMime = normalizedFilter

\* mimeTypeFilter ? mimeTypeFilter.split(',').map((f) => f.trim()).filter((f) => f) : []
MimeFilters(mimeTypeFilter) ==
    IF Len(mimeTypeFilter) > 0
    THEN SelectSeq([k \in 1..Len(Split(mimeTypeFilter)) |-> Trim(Split(mimeTypeFilter)[k])],
                   LAMBDA f : Len(f) > 0)
    ELSE <<>>

\* IAttachmentOptions with the defaults of getAttachments, and an entry of
\* email.attachments (a missing isInline is FALSE).
DefaultAttachmentOptions == [includeInline |-> FALSE, mimeTypeFilter |-> <<>>]
AttachmentOptions == [includeInline : BOOLEAN, mimeTypeFilter : MimeTypeFilters]
Attachments == [type : MimeTypes, isInline : BOOLEAN]

\* The two `continue` tests of the loop body: TRUE when the attachment is
\* skipped.
SkippedByLoop(attachment, opts) ==
    \/ attachment.isInline /\ ~opts.includeInline
    \/ /\ Len(MimeFilters(opts.mimeTypeFilter)) > 0
       /\ ~\E k \in 1..Len(MimeFilters(opts.mimeTypeFilter)) :
              MatchesMimeType(attachment.type, MimeFilters(opts.mimeTypeFilter)[k])

\* The position of the next attachment the loop downloads after position
\* `from`, or 0 when the loop runs to its end.
NextDownload(list, opts, from) ==
    LET rest == {k \in (from + 1)..Len(list) : ~SkippedByLoop(list[k], opts)}
    IN  IF rest = {} THEN 0 ELSE CHOOSE k \in rest : \A l \in rest : k <= l

\* A loop that catches a failed download and returns what it has.
PartialOnError(downloaded) == downloaded

\* A rejected await leaves getAttachments: the caller receives no array.
ReceivedOnError(downloaded) == <<>>

\* ----------------------------------------------------------------- labels
MailboxIdSet == {mb.id : mb \in Mailboxes}

\* The patch of an Email/set update: the path `mailboxIds/<id>` and its value
\* (null is "null"), or the path `mailboxIds` and the one id of its new map.
LabelPatch(mailboxId, value) == [path |-> mailboxId, value |-> value]

\* A move that adds the target and leaves the other mailboxes.
MoveAddsTarget(targetMailboxId) == LabelPatch(targetMailboxId, "true")

\* moveEmail: update: { [emailId]: { mailboxIds: { [targetMailboxId]: true } } }
MovePatch(targetMailboxId) == [path |-> "mailboxIds", value |-> targetMailboxId]

\* The mailbox a patch names.
PatchedMailbox(patch) ==
    IF patch.path = "mailboxIds" THEN patch.value ELSE patch.path
\* addLabel: update: { [emailId]: { [`mailboxIds/${mailboxId}`]: true } }
AddLabelPatch(mailboxId) == LabelPatch(mailboxId, "true")
\* A removeLabel that sends true where null belongs.
RemoveLabelSendsTrue(mailboxId) == LabelPatch(mailboxId, "true")

\* removeLabel: update: { [emailId]: { [`mailboxIds/${mailboxId}`]: null } }
RemoveLabelPatch(mailboxId) == LabelPatch(mailboxId, "null")

NoLabelCall == [name |-> "none", patch |-> LabelPatch("none", "null")]
LabelCall(name, patch) == [name |-> name, patch |-> patch]

\* The server applies the patch (RFC 8620 section 5.3: a whole property is
\* replaced; on a path, true adds the key and null removes it) and rejects an
\* update that would leave the email in no mailbox (RFC 8621 section 4.1.1),
\* keeping it as it was.
ApplyPatch(held, patch) ==
    LET patched == IF patch.path = "mailboxIds" THEN {patch.value}
                   ELSE IF patch.value = "true" THEN held \cup {patch.path}
                   ELSE held \ {patch.path}
    IN  IF patched = {} THEN held ELSE patched

\* --------------------------------------------------------------- getLabels
\* Mailboxes as Mailbox/get lists them (a null role is "null"), and the keys
\* an email's mailboxIds may have: "mb9" is the id of no listed mailbox.
ListedMailboxes ==
    {[id |-> "mb1", name |-> "Inbox", role |-> "inbox",
      totalEmails |-> "t1", unreadEmails |-> "u1"],
     [id |-> "mb3", name |-> "Work", role |-> "null",
      totalEmails |-> "t3", unreadEmails |-> "u3"],
     [id |-> "7", name |-> "Archive", role |-> "archive",
      totalEmails |-> "t7", unreadEmails |-> "u7"]}
MailboxIdKeys == {"mb1", "mb9", "7"}
NoListedMailbox ==
    [id |-> "undefined", name |-> "undefined", role |-> "undefined",
     totalEmails |-> "undefined", unreadEmails |-> "undefined"]

\* allMailboxes.find((mb) => mb.id === mailboxId)
RECURSIVE FindMailboxById(_, _)
FindMailboxById(list, mailboxId) ==
    IF Len(list) = 0 THEN NoListedMailbox
    ELSE IF Head(list).id = mailboxId THEN Head(list)
    ELSE FindMailboxById(Tail(list), mailboxId)

\* value || null
OrNull(value) == IF value \in {"undefined", "null", ""} THEN "null" ELSE value

\* A lookup whose placeholder has lost the id.
LabelWithoutId(mailboxId, list) ==
    LET mailbox == FindMailboxById(list, mailboxId)
    IN  IF mailbox # NoListedMailbox
        THEN [mailbox EXCEPT !.role = OrNull(mailbox.role)]
        ELSE [NoListedMailbox EXCEPT !.id = "null", !.name = "null", !.role = "null"]

\* The label pushed for one key of mailboxIds, lines 569-582.
LabelOf(mailboxId, list) ==
    LET mailbox == FindMailboxById(list, mailboxId)
    IN  IF mailbox # NoListedMailbox
        THEN [id |-> mailbox.id, name |-> mailbox.name,
              role |-> OrNull(mailbox.role),
              totalEmails |-> mailbox.totalEmails,
              unreadEmails |-> mailbox.unreadEmails]
        ELSE [NoListedMailbox EXCEPT !.id = mailboxId, !.name = "null",
                                     !.role = "null"]

\* ------------------------------------------------------------------- reply
\* JSON values of the email properties reply reads and writes.
JsonNull == [kind |-> "null", items |-> <<>>]
JsonList(elems) == [kind |-> "list", items |-> elems]
JsonString(str) == [kind |-> "string", items |-> <<str>>]

\* value || other: null and undefined are falsy, an array never is.
OrElse(value, other) == IF value.kind = "null" THEN other ELSE value

NoEmail == [id |-> "undefined"]

\* The emails Email/get may return for the id replied to.
OriginalEmails ==
    [id : {"e1"},
     threadId : {"t1", "t2"},
     from : {JsonList(<<"from@x">>)},
     replyTo : {JsonNull, JsonList(<<>>), JsonList(<<"reply@x">>)},
     subject : {"s"},
     inReplyTo : {JsonNull, JsonList(<<"m0">>)},
     references : {JsonNull, JsonList(<<"m0">>), JsonList(<<"m0", "m1">>)}]

EmailTypes == {"html", "text"}

\* const email = {...} of reply, with the body part emailType selects.
ReplyEmail(original, emailType) ==
    [to |-> OrElse(original.replyTo, original.from),
     subject |-> <<"Re: ", original.subject>>,
     inReplyTo |-> JsonString(original.id),
     references |-> JsonString(original.id),
     threadId |-> original.threadId,
     body |-> IF emailType = "html" THEN "text/html" ELSE "text/plain"]

\* --------------------------------------------------------------- transport
\* Strings that are encoded or concatenated are sequences of characters.
AuthTypes == {"jmapOAuth2Api", "jmapApi"}

\* The stored jmapApi credentials; authMethod "" is a credential saved
\* without the field.
CredentialSets ==
    [authMethod : {"", "basicAuth", "bearerToken"},
     email : {<<"b">>, <<"a", "@", "b">>},
     password : {<<"p">>},
     accessToken : {<<"t", "k">>}]
DefaultCredentials ==
    [authMethod |-> "basicAuth", email |-> <<"b">>, password |-> <<"p">>,
     accessToken |-> <<"t", "k">>]

\* Character codes of the characters credentials are written with.
CharCode == [c \in {"a", "b", "p", "t", "k", "@", ":"} |->
               CASE c = "a" -> 97 [] c = "b" -> 98 [] c = "p" -> 112
                 [] c = "t" -> 116 [] c = "k" -> 107 [] c = "@" -> 64
                 [] c = ":" -> 58]
Base64Alphabet ==
    <<"A", "B", "C", "D", "E", "F", "G", "H", "I", "J", "K", "L", "M", "N", "O",
      "P", "Q", "R", "S", "T", "U", "V", "W", "X", "Y", "Z", "a", "b", "c", "d",
      "e", "f", "g", "h", "i", "j", "k", "l", "m", "n", "o", "p", "q", "r", "s",
      "t", "u", "v", "w", "x", "y", "z", "0", "1", "2", "3", "4", "5", "6", "7",
      "8", "9", "+", "/">>
Sextet(n, k) == Base64Alphabet[((n \div (64 ^ (3 - k))) % 64) + 1]

\* Buffer.from(str).toString('base64')
RECURSIVE Base64(_)
Base64(str) ==
    IF Len(str) = 0 THEN <<>>
    ELSE IF Len(str) = 1
    THEN LET n == CharCode[str[1]] * 65536
         IN  <<Sextet(n, 0), Sextet(n, 1), "=", "=">>
    ELSE IF Len(str) = 2
    THEN LET n == CharCode[str[1]] * 65536 + CharCode[str[2]] * 256
         IN  <<Sextet(n, 0), Sextet(n, 1), Sextet(n, 2), "=">>
    ELSE LET n == CharCode[str[1]] * 65536 + CharCode[str[2]] * 256
                  + CharCode[str[3]]
         IN  <<Sextet(n, 0), Sextet(n, 1), Sextet(n, 2), Sextet(n, 3)>>
             \o Base64(SubSeq(str, 4, Len(str)))

BasicPrefix == <<"B", "a", "s", "i", "c", " ">>
BearerPrefix == <<"B", "e", "a", "r", "e", "r", " ">>

\* credentials.authMethod || 'basicAuth'
AuthMethod(creds) == IF creds.authMethod = "" THEN "basicAuth" ELSE creds.authMethod

\* headers.Authorization as both functions set it; <<>> when it is not set.
Authorization(creds) ==
    IF AuthMethod(creds) = "basicAuth"
    THEN BasicPrefix \o Base64(creds.email \o <<":">> \o creds.password)
    ELSE IF AuthMethod(creds) = "bearerToken"
    THEN BearerPrefix \o creds.accessToken
    ELSE <<>>

\* The request makeJmapRequest hands to the n8n helper of the auth type.
MakeJmapRequest(auth, creds, method, endpoint) ==
    IF auth = "jmapOAuth2Api"
    THEN [method |-> method, target |-> endpoint,
          helper |-> "httpRequestWithAuthentication",
          credentialType |-> "jmapOAuth2Api", authorization |-> <<>>]
    ELSE [method |-> method, target |-> endpoint, helper |-> "httpRequest",
          credentialType |-> "none", authorization |-> Authorization(creds)]

\* A download sent with no headers at all.
DownloadUnsigned(auth, creds) ==
    [method |-> "GET", target |-> "downloadUrl", helper |-> "httpRequest",
     credentialType |-> "none", authorization |-> <<>>]

\* The request downloadBlob hands to the n8n helper of the auth type.
DownloadRequest(auth, creds) ==
    IF auth = "jmapOAuth2Api"
    THEN [method |-> "GET", target |-> "downloadUrl",
          helper |-> "httpRequestWithAuthentication",
          credentialType |-> "jmapOAuth2Api", authorization |-> <<>>]
    ELSE [method |-> "GET", target |-> "downloadUrl", helper |-> "httpRequest",
          credentialType |-> "none", authorization |-> Authorization(creds)]

\* Bodies a server may answer a batch POST with.
NoBody == [received |-> FALSE, methodResponses |-> FALSE]
ReplyBodies == [received : {TRUE}, methodResponses : BOOLEAN]

NoOutcome == [status |-> "none", value |-> NoBody, message |-> "none"]
Returned(body) == [status |-> "returned", value |-> body, message |-> "none"]
Thrown(message) == [status |-> "thrown", value |-> NoBody, message |-> message]

\* ---------------------------------------------------------------- keywords
KeywordNames == {"$seen", "$flagged", "$answered", "$draft", "$forwarded"}

\* The keywords argument of updateEmailKeywords: { $seen: true / false }.
SeenMap(flag) == [keyword |-> "$seen", value |-> flag]

NoKeywordCall == [name |-> "none", keywords |-> SeenMap(FALSE)]
KeywordCall(name, map) == [name |-> name, keywords |-> map]

\* Email/set update {keywords: map}: the property is replaced as a whole.
\* RFC 8621 allows only true as a value; a server given false either rejects
\* the update (notUpdated) or stores the map without that entry.
KeywordsAfter(held, map) ==
    IF map.value THEN {{map.keyword}} ELSE {held, {}}

\* ------------------------------------------------------------------- Init
Init ==
    /\ store = <<>>
    /\ lastProcessedTime = Unset
    /\ pc = "idle"
    /\ options = [markAsRead |-> FALSE]
    /\ startTime = Unset
    /\ ids = <<>>
    /\ emails = <<>>
    /\ requests = <<>>
    /\ outcome = "none"
    /\ batch = <<>>
    /\ emittedBefore = {}
    /\ op = "none"
    /\ opPc = "idle"
    /\ mailboxes = <<>>
    /\ sent = <<>>
    /\ response = <<>>
    /\ result = NoResult
    /\ items = 0
    /\ operation = "none"
    /\ continueOnFail = FALSE
    /\ serverUrl = <<>>
    /\ session = NoSession
    /\ accountId = "none"
    /\ execPc = "idle"
    /\ index = 0
    /\ returnData = <<>>
    /\ execOutcome = "none"
    /\ http = {}
    /\ attachmentOptions = DefaultAttachmentOptions
    /\ attachments = <<>>
    /\ attPc = "idle"
    /\ cursor = 0
    /\ results = <<>>
    /\ downloads = <<>>
    /\ attOutcome = "none"
    /\ attachmentResults = <<>>
    /\ mailboxIds = {"mb1"}
    /\ initialMailboxIds = {"mb1"}
    /\ labelPc = "idle"
    /\ labelCall = NoLabelCall
    /\ labelLog = <<>>
    /\ labelsPc = "idle"
    /\ emailReturned = "none"
    /\ emailKeys = <<>>
    /\ allMailboxes = <<>>
    /\ labels = <<>>
    /\ labelsOutcome = "none"
    /\ replyPc = "idle"
    /\ originalEmail = NoEmail
    /\ email = NoEmail
    /\ replyRequests = <<>>
    /\ replyOutcome = "none"
    /\ authType = "jmapOAuth2Api"
    /\ credentials = DefaultCredentials
    /\ wire = <<>>
    /\ httpPc = "idle"
    /\ httpFunction = "none"
    /\ httpReply = NoBody
    /\ httpOutcome = NoOutcome
    /\ keywords = {}
    /\ keywordsBefore = {}
    /\ keywordPc = "idle"
    /\ keywordCall = NoKeywordCall

\* ------------------------------------------------------------ environment
\* The server receives an email; receivedAt is whatever the server assigns.
Deliver(t) ==
    /\ UNCHANGED exceptPoll
    /\ Len(store) < MaxEmails
    /\ store' = Append(store, t)
    /\ UNCHANGED <<lastProcessedTime, pc, options, startTime, ids, emails,
                   requests, outcome, batch, emittedBefore>>

\* ----------------------------------------------------------------- poll()
\* Lines 154-163: read the static data and the parameters, then await
\* getPrimaryAccountId (a GET of the session object).
PollBegin(opts) ==
    /\ UNCHANGED exceptPoll
    /\ pc = "idle"
    /\ options' = opts
    /\ startTime' = lastProcessedTime
    /\ requests' = <<"session">>
    /\ pc' = "session"
    /\ ids' = <<>>
    /\ emails' = <<>>
    /\ outcome' = "running"
    /\ batch' = <<>>
    /\ emittedBefore' = emittedBefore \cup Range(batch)
    /\ UNCHANGED <<store, lastProcessedTime>>

\* Lines 165-185: the session answered; build the filter, await queryEmails.
PollQuery ==
    /\ UNCHANGED exceptPoll
    /\ pc = "session"
    /\ requests' = Append(requests, "Email/query")
    /\ pc' = "query"
    /\ UNCHANGED <<store, lastProcessedTime, options, startTime, ids, emails,
                   outcome, batch, emittedBefore>>

\* Lines 179-228: Email/query answered with `reply`; return null on an empty
\* list, otherwise await getEmails.
PollQueryReply(reply) ==
    /\ UNCHANGED exceptPoll
    /\ pc = "query"
    /\ ids' = reply
    /\ IF NoIds(reply)
       THEN /\ outcome' = "null"
            /\ pc' = "idle"
            /\ UNCHANGED requests
       ELSE /\ requests' = Append(requests, "Email/get")
            /\ pc' = "get"
            /\ UNCHANGED outcome
    /\ UNCHANGED <<store, lastProcessedTime, options, startTime, emails, batch,
                   emittedBefore>>

\* Lines 221-278: Email/get answered with `reply`; the rest of poll() is
\* synchronous.
PollGetReply(reply) ==
    /\ UNCHANGED exceptPoll
    /\ pc = "get"
    /\ emails' = reply
    /\ ids' = <<>>
    /\ pc' = "idle"
    /\ IF NoEmails(reply)
       THEN /\ outcome' = "null"
            /\ UNCHANGED <<lastProcessedTime, batch>>
       ELSE /\ lastProcessedTime' = ReceivedAt(MostRecentEmail(reply))
            /\ LET newEmails == NewEmails(reply, startTime)
               IN  IF Len(newEmails) = 0
                   THEN outcome' = "null" /\ UNCHANGED batch
                   ELSE outcome' = "data" /\ batch' = newEmails
    /\ UNCHANGED <<store, options, startTime, requests, emittedBefore>>

\* A failing cycle that forgets the watermark.
PollFailForgets ==
    /\ UNCHANGED exceptPoll
    /\ pc \in {"session", "query", "get"}
    /\ outcome' = "error"
    /\ pc' = "idle"
    /\ ids' = <<>>
    /\ lastProcessedTime' = Unset
    /\ UNCHANGED <<store, options, startTime, emails, requests, batch,
                   emittedBefore>>

\* An await of poll() rejects (transport error, or an "error" reply that makes
\* queryEmails / getEmails throw): the exception leaves poll().
PollFail ==
    /\ UNCHANGED exceptPoll
    /\ pc \in {"session", "query", "get"}
    /\ outcome' = "error"
    /\ pc' = "idle"
    /\ ids' = <<>>
    /\ UNCHANGED <<store, lastProcessedTime, options, startTime, emails,
                   requests, batch, emittedBefore>>

\* What the server may answer: any emails it holds, in any order, at most
\* `limit` of them to Email/query and only requested ones to Email/get.
QueryReplies == DistinctSeqs(1..Len(store), PollLimit)
GetReplies == DistinctSeqs(Range(ids), Len(ids))

QueryAnswered == pc = "query" /\ \E r \in QueryReplies : PollQueryReply(r)
GetAnswered == pc = "get" /\ \E r \in GetReplies : PollGetReply(r)

Next ==
    \/ \E t \in Stamps : Deliver(t)
    \/ \E m \in BOOLEAN : PollBegin([markAsRead |-> m])
    \/ PollQuery
    \/ QueryAnswered
    \/ GetAnswered
    \/ PollFail

Spec == Init /\ [][Next]_vars

\* ------------------------------------------- a server that follows RFC 8621
\* Email/query with {filter, sort: receivedAt descending, limit}: the emails
\* matching the filter, newest first, cut to one page. Whether `after` keeps
\* the boundary instant is left to the server (`inclusive`).
Matching(filter, inclusive) ==
    {e \in 1..Len(store) :
        \/ filter.after = Unset
        \/ DateGetTime(store[e]) > DateGetTime(filter.after)
        \/ inclusive /\ DateGetTime(store[e]) = DateGetTime(filter.after)}

Min(a, b) == IF a < b THEN a ELSE b

IsPage(r, M) ==
    /\ Len(r) = Min(PollLimit, Cardinality(M))
    /\ \A i \in 1..Len(r) : \A j \in 1..Len(r) :
          i < j => DateGetTime(store[r[i]]) >= DateGetTime(store[r[j]])
    /\ \A e \in M \ Range(r) : \A i \in 1..Len(r) :
          DateGetTime(store[e]) <= DateGetTime(store[r[i]])

RfcQueryReplies ==
    UNION {{r \in DistinctSeqs(Matching(BuildFilter(startTime), inc), PollLimit) :
               IsPage(r, Matching(BuildFilter(startTime), inc))} : inc \in BOOLEAN}

\* Email/get returns every requested email; RFC 8620 fixes no order of `list`.
RfcGetReplies == {r \in GetReplies : Len(r) = Len(ids)}

RfcQueryAnswered == pc = "query" /\ \E r \in RfcQueryReplies : PollQueryReply(r)
RfcGetAnswered == pc = "get" /\ \E r \in RfcGetReplies : PollGetReply(r)

NextRfc ==
    \/ \E t \in Stamps : Deliver(t)
    \/ \E m \in BOOLEAN : PollBegin([markAsRead |-> m])
    \/ PollQuery
    \/ RfcQueryAnswered
    \/ RfcGetAnswered
    \/ PollFail

SpecRfc == Init /\ [][NextRfc]_vars

\* The same server, with mail arriving between poll cycles only: every email
\* a cycle could see was there when it started.
DeliverBetweenCycles == pc = "idle" /\ \E t \in Stamps : Deliver(t)

NextRfcQuiet ==
    \/ DeliverBetweenCycles
    \/ \E m \in BOOLEAN : PollBegin([markAsRead |-> m])
    \/ PollQuery
    \/ RfcQueryAnswered
    \/ RfcGetAnswered
    \/ PollFail

SpecRfcQuiet == Init /\ [][NextRfcQuiet]_vars

\* ------------------------------------------------------- mail operations
\* An operation is called. sendEmail and createDraft first await
\* findMailboxByRole, which posts Mailbox/get; the others post their call.
OpStart(o) ==
    /\ opPc \in {"idle", "done"}
    /\ op' = o
    /\ mailboxes' = <<>>
    /\ response' = <<>>
    /\ result' = NoResult
    /\ IF o \in DraftOps
       THEN sent' = <<SingleCallRequest("getMailboxes")>> /\ opPc' = "mailboxes"
       ELSE sent' = <<SingleCallRequest(o)>> /\ opPc' = "call"
    /\ UNCHANGED exceptMail

\* findMailboxByRole(accountId, 'drafts') returns: getMailboxes read the
\* envelope `env`, whose Mailbox/get result lists `list`.
MailboxesReply(env, list) ==
    /\ opPc = "mailboxes"
    /\ LET got == SingleCallResult("getMailboxes", env)
           draftsMailbox == FindMailboxByRole(list, "drafts")
       IN  IF got.status = "error"
           THEN /\ result' = got
                /\ opPc' = "done"
                /\ response' = env
                /\ UNCHANGED <<mailboxes, sent>>
           ELSE /\ mailboxes' = list
                /\ UNCHANGED response
                /\ IF draftsMailbox = NoMailbox
                   THEN /\ result' = Failure("Drafts mailbox not found", "none")
                        /\ opPc' = "done"
                        /\ UNCHANGED sent
                   ELSE /\ sent' = Append(sent,
                               IF op = "sendEmail"
                               THEN SendRequest(draftsMailbox.id)
                               ELSE CreateDraftRequest(draftsMailbox.id))
                        /\ opPc' = "call"
                        /\ UNCHANGED result
    /\ UNCHANGED <<op, exceptMail>>

\* The batch request of the operation is answered with the envelope `env`.
CallReply(env) ==
    /\ opPc = "call"
    /\ response' = env
    /\ result' = CASE op = "sendEmail" -> SendEmailResult(env)
                   [] op = "createDraft" -> CreateDraftResult(env)
                   [] OTHER -> SingleCallResult(op, env)
    /\ opPc' = "done"
    /\ UNCHANGED <<op, mailboxes, sent, exceptMail>>

\* makeJmapRequest rejects: jmapApiRequest throws a NodeApiError.
CallFails ==
    /\ opPc \in {"mailboxes", "call"}
    /\ result' = Failure("JMAP API request failed", "none")
    /\ opPc' = "done"
    /\ UNCHANGED <<op, mailboxes, sent, response, exceptMail>>

\* Response envelopes the server may send for the calls `names`: any entries,
\* in any order, under either call id.
Entries(names) ==
    {[name |-> n, payload |-> p, callId |-> c] :
        n \in names \cup {"error"}, p \in ResultPayloads \cup ErrorPayloads,
        c \in {"c1", "c2"}}

WellTyped(entry) ==
    (entry.name = "error") <=> (entry.payload \in ErrorPayloads)

RECURSIVE SeqsUpTo(_, _)
SeqsUpTo(S, n) ==
    IF n = 0 THEN {<<>>}
    ELSE {<<>>} \cup UNION {{<<x>> \o t : t \in SeqsUpTo(S, n - 1)} : x \in S}

NameSets ==
    {{MethodOf(o)} : o \in SingleCallOps} \cup {{"Email/set", "EmailSubmission/set"}}

ResponsesOf ==
    [names \in NameSets |->
        SeqsUpTo({e \in Entries(names) : WellTyped(e)}, MaxResponses)]

Responses(names) == ResponsesOf[names]

CallNames(request) ==
    {request.methodCalls[i].name : i \in 1..Len(request.methodCalls)}

\* The methods of the request that is awaiting its response.
PendingNames == IF Len(sent) = 0 THEN {} ELSE CallNames(sent[Len(sent)])

MailboxLists == DistinctSeqs(Mailboxes, 2)

MailboxesAnswered ==
    opPc = "mailboxes" /\
        \E env \in Responses({"Mailbox/get"}) : \E list \in MailboxLists :
            MailboxesReply(env, list)
CallAnswered ==
    opPc = "call" /\ \E env \in Responses(PendingNames) : CallReply(env)

MailNext ==
    \/ \E o \in MailOps : OpStart(o)
    \/ MailboxesAnswered
    \/ CallAnswered
    \/ CallFails

MailSpec == Init /\ [][MailNext]_vars

\* ---------------------------------------------------------- Jmap.execute()
\* Lines 1730-1736: read the items and the parameters, then await
\* getPrimaryAccountId, which GETs the session.
ExecuteStart(n, o, cof, credentialUrl) ==
    /\ execPc \in {"idle", "done"}
    /\ items' = n
    /\ operation' = o
    /\ continueOnFail' = cof
    /\ serverUrl' = credentialUrl
    /\ session' = NoSession
    /\ accountId' = "none"
    /\ index' = 0
    /\ returnData' = <<>>
    /\ execOutcome' = "none"
    /\ http' = {SessionRequest(credentialUrl)}
    /\ execPc' = "session"
    /\ UNCHANGED exceptExec

\* The session arrives; getPrimaryAccountId returns or throws (outside the
\* try block of the loop), and the loop is entered.
SessionReply(sess) ==
    /\ execPc = "session"
    /\ session' = sess
    /\ LET account == GetPrimaryAccountId(sess)
       IN  IF account.status = "error"
           THEN /\ execOutcome' = "thrown"
                /\ execPc' = "done"
                /\ UNCHANGED accountId
           ELSE /\ accountId' = account.value
                /\ IF 0 < ItemsToProcess(operation, items)
                   THEN execPc' = "item" /\ UNCHANGED execOutcome
                   ELSE execPc' = "done" /\ execOutcome' = "returned"
    /\ UNCHANGED <<items, operation, continueOnFail, serverUrl, index,
                   returnData, http, exceptExec>>

\* getJmapSession throws 'Failed to get JMAP session'.
SessionFails ==
    /\ execPc = "session"
    /\ execOutcome' = "thrown"
    /\ execPc' = "done"
    /\ UNCHANGED <<items, operation, continueOnFail, serverUrl, session,
                   accountId, index, returnData, http, exceptExec>>

\* The operation of item `index` posts its batch request.
ItemCall ==
    /\ execPc = "item"
    /\ http' = http \cup {BatchRequest(serverUrl)}
    /\ execPc' = "call"
    /\ UNCHANGED <<items, operation, continueOnFail, serverUrl, session,
                   accountId, index, returnData, execOutcome, exceptExec>>

\* i++ and the loop test.
LoopNext ==
    /\ index' = index + 1
    /\ IF index + 1 < ItemsToProcess(operation, items)
       THEN execPc' = "item" /\ UNCHANGED execOutcome
       ELSE execPc' = "done" /\ execOutcome' = "returned"

\* Lines 2041-2046: the operation returned; its data is pushed to returnData.
ItemReturns ==
    /\ execPc = "call"
    /\ returnData' = Append(returnData, ItemData(index))
    /\ LoopNext
    /\ UNCHANGED <<items, operation, continueOnFail, serverUrl, session,
                   accountId, http, exceptExec>>

\* Lines 2047-2056: the operation threw, before or after its request.
ItemThrows ==
    /\ execPc \in {"item", "call"}
    /\ IF Rethrows(continueOnFail)
       THEN /\ execOutcome' = "thrown"
            /\ execPc' = "done"
            /\ UNCHANGED <<index, returnData>>
       ELSE /\ returnData' = Append(returnData, ItemError(index))
            /\ LoopNext
    /\ UNCHANGED <<items, operation, continueOnFail, serverUrl, session,
                   accountId, http, exceptExec>>

SessionAnswered == execPc = "session" /\ \E sess \in Sessions : SessionReply(sess)

ExecNext ==
    \/ \E n \in 0..MaxItems : \E o \in ExecOperations : \E cof \in BOOLEAN :
          \E u \in CredentialUrls : ExecuteStart(n, o, cof, u)
    \/ SessionAnswered
    \/ SessionFails
    \/ ItemCall
    \/ ItemReturns
    \/ ItemThrows

ExecSpec == Init /\ [][ExecNext]_vars

\* --------------------------------------------------------- getAttachments()
\* Lines 726-741: read the options, await getEmails for the one email.
GetAttachmentsStart(opts) ==
    /\ attPc \in {"idle", "done"}
    /\ attachmentOptions' = opts
    /\ attachments' = <<>>
    /\ cursor' = 0
    /\ results' = <<>>
    /\ downloads' = <<>>
    /\ attOutcome' = "none"
    /\ attachmentResults' = <<>>
    /\ attPc' = "email"
    /\ UNCHANGED exceptAttach

\* The loop moves on from position `from`: to the next download, or to
\* `return results`.
LoopFrom(list, from, downloaded) ==
    LET next == NextDownload(list, attachmentOptions, from)
    IN  IF next = 0
        THEN /\ attPc' = "done"
             /\ attOutcome' = "returned"
             /\ attachmentResults' = downloaded
             /\ cursor' = Len(list)
             /\ UNCHANGED downloads
        ELSE /\ attPc' = "download"
             /\ cursor' = next
             /\ downloads' = Append(downloads, next)
             /\ UNCHANGED <<attOutcome, attachmentResults>>

\* Lines 743-774: getEmails returned the email, whose attachments are `list`.
EmailReply(list) ==
    /\ attPc = "email"
    /\ attachments' = list
    /\ LoopFrom(list, 0, <<>>)
    /\ UNCHANGED <<attachmentOptions, results, exceptAttach>>

\* getEmails threw, or returned no email ('Email with ID ... not found').
EmailFails ==
    /\ attPc = "email"
    /\ attPc' = "done"
    /\ attOutcome' = "thrown"
    /\ attachmentResults' = ReceivedOnError(results)
    /\ UNCHANGED <<attachmentOptions, attachments, cursor, results, downloads,
                   exceptAttach>>

\* Lines 775-808: downloadBlob and prepareBinaryData returned for the
\* attachment at `cursor`; it is pushed to results and the loop goes on.
DownloadReturns ==
    /\ attPc = "download"
    /\ results' = Append(results, cursor)
    /\ LoopFrom(attachments, cursor, Append(results, cursor))
    /\ UNCHANGED <<attachmentOptions, attachments, exceptAttach>>

\* downloadBlob (its session lookup or its GET) or prepareBinaryData threw.
DownloadFails ==
    /\ attPc = "download"
    /\ attPc' = "done"
    /\ attOutcome' = "thrown"
    /\ attachmentResults' = ReceivedOnError(results)
    /\ UNCHANGED <<attachmentOptions, attachments, cursor, results, downloads,
                   exceptAttach>>

AttachmentLists == SeqsUpTo(Attachments, MaxAttachments)

EmailAnswered == attPc = "email" /\ \E list \in AttachmentLists : EmailReply(list)

AttachNext ==
    \/ \E opts \in AttachmentOptions : GetAttachmentsStart(opts)
    \/ EmailAnswered
    \/ EmailFails
    \/ DownloadReturns
    \/ DownloadFails

AttachSpec == Init /\ [][AttachNext]_vars

\* ------------------------------------------------- addLabel / removeLabel
\* The email as the server holds it before the label operations start.
ServerHolds(held) ==
    /\ labelPc = "idle"
    /\ mailboxIds' = held
    /\ initialMailboxIds' = held
    /\ labelLog' = <<>>
    /\ UNCHANGED <<labelPc, labelCall, exceptLabel>>

\* addLabel(accountId, emailId, mailboxId) posts its Email/set.
AddLabel(mailboxId) ==
    /\ labelPc = "idle"
    /\ Len(labelLog) < MaxLabelOps
    /\ labelCall' = LabelCall("addLabel", AddLabelPatch(mailboxId))
    /\ labelPc' = "call"
    /\ UNCHANGED <<mailboxIds, initialMailboxIds, labelLog, exceptLabel>>

\* removeLabel(accountId, emailId, mailboxId) posts its Email/set.
RemoveLabel(mailboxId) ==
    /\ labelPc = "idle"
    /\ Len(labelLog) < MaxLabelOps
    /\ labelCall' = LabelCall("removeLabel", RemoveLabelPatch(mailboxId))
    /\ labelPc' = "call"
    /\ UNCHANGED <<mailboxIds, initialMailboxIds, labelLog, exceptLabel>>

\* moveEmail(accountId, emailId, targetMailboxId) posts its Email/set.
MoveEmail(targetMailboxId) ==
    /\ labelPc = "idle"
    /\ Len(labelLog) < MaxLabelOps
    /\ labelCall' = LabelCall("moveEmail", MovePatch(targetMailboxId))
    /\ labelPc' = "call"
    /\ UNCHANGED <<mailboxIds, initialMailboxIds, labelLog, exceptLabel>>

\* The server handled the Email/set and answered with an Email/set entry,
\* which the operation returns (whether it lists the email under updated or
\* under notUpdated).
LabelReply ==
    /\ labelPc = "call"
    /\ mailboxIds' = ApplyPatch(mailboxIds, labelCall.patch)
    /\ labelLog' = Append(labelLog, [name |-> labelCall.name,
                                     mailboxId |-> PatchedMailbox(labelCall.patch)])
    /\ labelPc' = "idle"
    /\ UNCHANGED <<initialMailboxIds, labelCall, exceptLabel>>

\* The request failed, or the first entry was not Email/set: the operation
\* throws and the email is as it was.
LabelFails ==
    /\ labelPc = "call"
    /\ labelPc' = "idle"
    /\ UNCHANGED <<mailboxIds, initialMailboxIds, labelCall, labelLog, exceptLabel>>

LabelNext ==
    \/ \E held \in (SUBSET MailboxIdSet) \ {{}} : ServerHolds(held)
    \/ \E mailboxId \in MailboxIdSet : AddLabel(mailboxId)
    \/ \E mailboxId \in MailboxIdSet : RemoveLabel(mailboxId)
    \/ \E mailboxId \in MailboxIdSet : MoveEmail(mailboxId)
    \/ LabelReply
    \/ LabelFails

LabelSpec == Init /\ [][LabelNext]_vars

\* -------------------------------------------------------------- getLabels()
\* Line 553: await getEmails(accountId, [emailId], ['id', 'mailboxIds']).
GetLabelsStart ==
    /\ labelsPc \in {"idle", "done"}
    /\ labelsPc' = "email"
    /\ emailReturned' = "none"
    /\ emailKeys' = <<>>
    /\ allMailboxes' = <<>>
    /\ labels' = <<>>
    /\ labelsOutcome' = "none"
    /\ UNCHANGED exceptGetLabels

\* Lines 559-566: the email came back with the mailboxIds keys `keys`; with no
\* key getLabels returns [], otherwise it awaits getMailboxes.
LabelsEmailReply(keys) ==
    /\ labelsPc = "email"
    /\ emailReturned' = "yes"
    /\ emailKeys' = keys
    /\ IF Len(ObjectKeys(keys)) = 0
       THEN labelsPc' = "done" /\ labelsOutcome' = "returned"
       ELSE labelsPc' = "mailboxes" /\ UNCHANGED labelsOutcome
    /\ UNCHANGED <<allMailboxes, labels, exceptGetLabels>>

\* Lines 555-557: getEmails returned an empty list.
LabelsEmailMissing ==
    /\ labelsPc = "email"
    /\ emailReturned' = "no"
    /\ labelsPc' = "done"
    /\ labelsOutcome' = "Email not found"
    /\ UNCHANGED <<emailKeys, allMailboxes, labels, exceptGetLabels>>

\* Lines 566-584: getMailboxes returned `list`; one label per key.
LabelsMailboxesReply(list) ==
    /\ labelsPc = "mailboxes"
    /\ allMailboxes' = list
    /\ labels' = [k \in 1..Len(ObjectKeys(emailKeys)) |->
                     LabelOf(ObjectKeys(emailKeys)[k], list)]
    /\ labelsPc' = "done"
    /\ labelsOutcome' = "returned"
    /\ UNCHANGED <<emailReturned, emailKeys, exceptGetLabels>>

\* getEmails or getMailboxes threw (failed request, or another first entry).
LabelsCallFails ==
    /\ labelsPc \in {"email", "mailboxes"}
    /\ labelsPc' = "done"
    /\ labelsOutcome' = "request failed"
    /\ UNCHANGED <<emailReturned, emailKeys, allMailboxes, labels, exceptGetLabels>>

LabelsEmailAnswered ==
    labelsPc = "email" /\
        \E keys \in DistinctSeqs(MailboxIdKeys, MaxLabels) : LabelsEmailReply(keys)
LabelsMailboxesAnswered ==
    labelsPc = "mailboxes" /\
        \E list \in DistinctSeqs(ListedMailboxes, MaxLabels) : LabelsMailboxesReply(list)

GetLabelsNext ==
    \/ GetLabelsStart
    \/ LabelsEmailAnswered
    \/ LabelsEmailMissing
    \/ LabelsMailboxesAnswered
    \/ LabelsCallFails

GetLabelsSpec == Init /\ [][GetLabelsNext]_vars

\* ------------------------------------------------------------------ reply
\* Line 1976: await getEmails(accountId, [emailId]).
ReplyStart ==
    /\ replyPc \in {"idle", "done"}
    /\ replyPc' = "getEmails"
    /\ originalEmail' = NoEmail
    /\ email' = NoEmail
    /\ replyRequests' = <<"Email/get">>
    /\ replyOutcome' = "none"
    /\ UNCHANGED exceptReply

\* Lines 1976-2004: the original came back; the reply is built and sendEmail
\* posts its Email/set and EmailSubmission/set.
OriginalReturned(original, emailType) ==
    /\ replyPc = "getEmails"
    /\ originalEmail' = original
    /\ email' = ReplyEmail(original, emailType)
    /\ replyRequests' = replyRequests \o <<"Email/set", "EmailSubmission/set">>
    /\ replyPc' = "sendEmail"
    /\ UNCHANGED <<replyOutcome, exceptReply>>

\* Lines 1977-1981: the list was empty.
OriginalMissing ==
    /\ replyPc = "getEmails"
    /\ replyPc' = "done"
    /\ replyOutcome' = "Original email not found"
    /\ UNCHANGED <<originalEmail, email, replyRequests, exceptReply>>

\* getEmails threw.
OriginalFails ==
    /\ replyPc = "getEmails"
    /\ replyPc' = "done"
    /\ replyOutcome' = "Failed to get emails"
    /\ UNCHANGED <<originalEmail, email, replyRequests, exceptReply>>

\* Line 2004: sendEmail returned or threw.
ReplySendEnds(ending) ==
    /\ replyPc = "sendEmail"
    /\ replyPc' = "done"
    /\ replyOutcome' = ending
    /\ UNCHANGED <<originalEmail, email, replyRequests, exceptReply>>

OriginalAnswered ==
    replyPc = "getEmails" /\
        \E original \in OriginalEmails, emailType \in EmailTypes :
            OriginalReturned(original, emailType)
ReplySent ==
    replyPc = "sendEmail" /\
        \E ending \in {"returned", "Failed to send email"} : ReplySendEnds(ending)

ReplyNext ==
    \/ ReplyStart
    \/ OriginalAnswered
    \/ OriginalMissing
    \/ OriginalFails
    \/ ReplySent

ReplySpec == Init /\ [][ReplyNext]_vars

\* -------------------------------------------------------------- transport
\* The node is configured: the authentication parameter and the credentials.
Configure(auth, creds) ==
    /\ httpPc \in {"idle", "done"}
    /\ authType' = auth
    /\ credentials' = creds
    /\ wire' = <<>>
    /\ httpPc' = "idle"
    /\ httpFunction' = "none"
    /\ httpReply' = NoBody
    /\ httpOutcome' = NoOutcome
    /\ UNCHANGED exceptTransport

\* getJmapSession, line 151: GET /session.
GetJmapSession ==
    /\ httpPc \in {"idle", "done"}
    /\ httpFunction' = "getJmapSession"
    /\ wire' = <<MakeJmapRequest(authType, credentials, "GET", "/session")>>
    /\ httpPc' = "session"
    /\ httpReply' = NoBody
    /\ httpOutcome' = NoOutcome
    /\ UNCHANGED <<authType, credentials, exceptTransport>>

\* jmapApiRequest, line 173: POST ''.
JmapApiRequest ==
    /\ httpPc \in {"idle", "done"}
    /\ httpFunction' = "jmapApiRequest"
    /\ wire' = <<MakeJmapRequest(authType, credentials, "POST", "")>>
    /\ httpPc' = "batch"
    /\ httpReply' = NoBody
    /\ httpOutcome' = NoOutcome
    /\ UNCHANGED <<authType, credentials, exceptTransport>>

\* downloadBlob, line 639: it first awaits getJmapSession.
DownloadBlob ==
    /\ httpPc \in {"idle", "done"}
    /\ httpFunction' = "downloadBlob"
    /\ wire' = <<MakeJmapRequest(authType, credentials, "GET", "/session")>>
    /\ httpPc' = "session"
    /\ httpReply' = NoBody
    /\ httpOutcome' = NoOutcome
    /\ UNCHANGED <<authType, credentials, exceptTransport>>

\* The session came back: getJmapSession returns it (line 152); downloadBlob
\* goes on to request the blob (lines 642-681).
SessionReceived ==
    /\ httpPc = "session"
    /\ IF httpFunction = "downloadBlob"
       THEN /\ wire' = Append(wire, DownloadRequest(authType, credentials))
            /\ httpPc' = "download"
            /\ UNCHANGED httpOutcome
       ELSE /\ httpPc' = "done"
            /\ httpOutcome' = Returned(NoBody)
            /\ UNCHANGED wire
    /\ UNCHANGED <<authType, credentials, httpFunction, httpReply, exceptTransport>>

\* Line 681: the blob came back.
BlobReceived ==
    /\ httpPc = "download"
    /\ httpPc' = "done"
    /\ httpOutcome' = Returned(NoBody)
    /\ UNCHANGED <<authType, credentials, wire, httpFunction, httpReply,
                   exceptTransport>>

\* Lines 172-174: the POST was answered with `body`; jmapApiRequest returns
\* the parsed body.
BatchReceived(body) ==
    /\ httpPc = "batch"
    /\ httpReply' = body
    /\ httpPc' = "done"
    /\ httpOutcome' = Returned(body)
    /\ UNCHANGED <<authType, credentials, wire, httpFunction, exceptTransport>>

\* The n8n helper rejected (network error or HTTP error status): lines
\* 153-157 and 175-179 wrap the error, downloadBlob lets its own pass.
HttpRejected ==
    /\ httpPc \in {"session", "batch", "download"}
    /\ httpPc' = "done"
    /\ httpOutcome' = Thrown(CASE httpPc = "session" -> "Failed to get JMAP session"
                               [] httpPc = "batch" -> "JMAP API request failed"
                               [] httpPc = "download" -> "request error")
    /\ UNCHANGED <<authType, credentials, wire, httpFunction, httpReply,
                   exceptTransport>>

Configured ==
    httpPc \in {"idle", "done"} /\
        \E auth \in AuthTypes, creds \in CredentialSets : Configure(auth, creds)
BatchAnswered ==
    httpPc = "batch" /\ \E body \in ReplyBodies : BatchReceived(body)

TransportNext ==
    \/ Configured
    \/ GetJmapSession
    \/ JmapApiRequest
    \/ DownloadBlob
    \/ SessionReceived
    \/ BlobReceived
    \/ BatchAnswered
    \/ HttpRejected

TransportSpec == Init /\ [][TransportNext]_vars

\* --------------------------------------------- markAsRead / markAsUnread
\* The mailbox owner or another client sets the email's keywords.
KeywordsHeld(held) ==
    /\ keywordPc \in {"idle", "done"}
    /\ keywords' = held
    /\ keywordsBefore' = held
    /\ keywordPc' = "idle"
    /\ keywordCall' = NoKeywordCall
    /\ UNCHANGED exceptKeyword

\* Lines 1937-1942: updateEmailKeywords(accountId, emailId, {$seen: true}).
MarkAsRead ==
    /\ keywordPc \in {"idle", "done"}
    /\ keywordCall' = KeywordCall("markAsRead", SeenMap(TRUE))
    /\ keywordsBefore' = keywords
    /\ keywordPc' = "Email/set"
    /\ UNCHANGED <<keywords, exceptKeyword>>

\* Lines 1944-1949: updateEmailKeywords(accountId, emailId, {$seen: false}).
MarkAsUnread ==
    /\ keywordPc \in {"idle", "done"}
    /\ keywordCall' = KeywordCall("markAsUnread", SeenMap(FALSE))
    /\ keywordsBefore' = keywords
    /\ keywordPc' = "Email/set"
    /\ UNCHANGED <<keywords, exceptKeyword>>

\* The server answered Email/set; updateEmailKeywords returns the reply
\* (lines 444-447) whether it lists the email under updated or notUpdated.
KeywordsReply ==
    /\ keywordPc = "Email/set"
    /\ keywords' \in KeywordsAfter(keywords, keywordCall.keywords)
    /\ keywordPc' = "done"
    /\ UNCHANGED <<keywordsBefore, keywordCall, exceptKeyword>>

\* The request failed or the first entry was not Email/set.
KeywordsFails ==
    /\ keywordPc = "Email/set"
    /\ keywordPc' = "idle"
    /\ keywordCall' = NoKeywordCall
    /\ UNCHANGED <<keywords, keywordsBefore, exceptKeyword>>

KeywordsSet ==
    keywordPc \in {"idle", "done"} /\
        \E held \in SUBSET KeywordNames : KeywordsHeld(held)

KeywordNext ==
    \/ KeywordsSet
    \/ MarkAsRead
    \/ MarkAsUnread
    \/ KeywordsReply
    \/ KeywordsFails

KeywordSpec == Init /\ [][KeywordNext]_vars

\* ================================================================== claims
CycleReturned == pc = "idle" /\ outcome \in {"null", "data"}

\* C1: the persisted lastProcessedTime after a poll cycle is never earlier
\* than its value before that cycle, whatever the server replied.
WatermarkMonotone ==
    (CycleReturned /\ HasLastProcessedTime(startTime)) =>
        /\ HasLastProcessedTime(lastProcessedTime)
        /\ DateGetTime(lastProcessedTime) >= DateGetTime(startTime)

\* C2: in a cycle that starts with a watermark W, every email of the returned
\* batch has receivedAt strictly later than W, whatever the server returned.
NoStaleEmission ==
    (outcome = "data" /\ HasLastProcessedTime(startTime)) =>
        \A e \in Range(batch) : DateGetTime(store[e]) > DateGetTime(startTime)

\* C2 witness: the server returned an email at or before the watermark
\* together with a later one, and the cycle returned a batch.
StaleEmailFiltered ==
    /\ outcome = "data"
    /\ HasLastProcessedTime(startTime)
    /\ \E e \in Range(emails) : DateGetTime(store[e]) <= DateGetTime(startTime)
    /\ Len(batch) < Len(emails)

\* C3: no email id is in the batches returned by two different cycles.
NoDuplicateAcrossCycles == Range(batch) \cap emittedBefore = {}

\* C4: a cycle whose Email/query returns no id, or whose Email/get returns no
\* email, returns null, issues no further request and leaves lastProcessedTime
\* as it was; this holds of every such cycle, so also of two in a row. (A step
\* that changes pc from "query" or "get" without an error is the reply to
\* Email/query or Email/get being handled.)
EmptyCycleChangesNothing ==
    [][ /\ (pc = "query" /\ pc' # pc /\ outcome' # "error" /\ ids' = <<>>) =>
              /\ outcome' = "null" /\ pc' = "idle"
              /\ requests' = requests
              /\ lastProcessedTime' = lastProcessedTime
        /\ (pc = "get" /\ pc' # pc /\ outcome' # "error" /\ emails' = <<>>) =>
              /\ outcome' = "null" /\ pc' = "idle"
              /\ requests' = requests
              /\ lastProcessedTime' = lastProcessedTime ]_vars

\* C4 witness: with a watermark set and mail on the server, a cycle ended at
\* the empty Email/query reply: no Email/get was sent, the watermark stayed.
EmptyQueryCycle ==
    /\ pc = "idle" /\ outcome = "null"
    /\ requests = <<"session", "Email/query">>
    /\ HasLastProcessedTime(lastProcessedTime)
    /\ lastProcessedTime = startTime
    /\ Len(store) > 0

\* C5: a cycle that returns ends either with null and the watermark where it
\* was at the start, or with a non-empty batch and the watermark advanced.
Advanced(before, after) ==
    /\ HasLastProcessedTime(after)
    /\ HasLastProcessedTime(before) => DateGetTime(after) > DateGetTime(before)

SameInstant(before, after) ==
    /\ HasLastProcessedTime(after) <=> HasLastProcessedTime(before)
    /\ HasLastProcessedTime(before) => DateGetTime(after) = DateGetTime(before)

TwoOutcomes ==
    CycleReturned =>
        /\ outcome = "null" => SameInstant(startTime, lastProcessedTime)
        /\ outcome = "data" =>
              Len(batch) > 0 /\ Advanced(startTime, lastProcessedTime)

\* C6: with options.markAsRead set, a cycle that returns a batch has issued an
\* Email/set marking the returned emails as read.
MarkAsReadHonoured ==
    (outcome = "data" /\ options.markAsRead) => "Email/set" \in Range(requests)

\* C7: sendEmail and createDraft, when the mailbox list has no mailbox with
\* role "drafts", fail, and no request they send at any point holds an
\* Email/set or EmailSubmission/set call.
HasRole(list, role) == \E i \in 1..Len(list) : list[i].role = role

NoDraftsNoSet ==
    (op \in DraftOps /\ ~HasRole(mailboxes, "drafts")) =>
        /\ \A i \in 1..Len(sent) :
              CallNames(sent[i]) \cap {"Email/set", "EmailSubmission/set"} = {}
        /\ opPc = "done" => result.status = "error"

\* C7 witness: sendEmail got a non-empty mailbox list without a drafts
\* mailbox and threw, having sent the Mailbox/get request only.
SendWithoutDraftsFailed ==
    /\ op = "sendEmail" /\ opPc = "done"
    /\ Len(mailboxes) > 0 /\ ~HasRole(mailboxes, "drafts")
    /\ result = Failure("Drafts mailbox not found", "none")
    /\ Len(sent) = 1

\* C8: when the send envelope is answered with a successful Email/set entry
\* and an "error" entry for EmailSubmission/set, sendEmail fails with the
\* second entry's payload, and the failure still gives the caller the id of
\* the draft the first call created.
Carried(failure) == {failure.value, failure.message, failure.detail}

SendFailureKeepsDraft ==
    (/\ op = "sendEmail" /\ opPc = "done" /\ Len(response) = 2
     /\ response[1].name = "Email/set" /\ response[1].callId = "c1"
     /\ CreatedDraft(response[1].payload) # "none"
     /\ response[2].name = "error" /\ response[2].callId = "c2") =>
        /\ result.status = "error"
        /\ result.detail = response[2].payload
        /\ CreatedDraft(response[1].payload) \in Carried(result)

\* C9: an operation whose response envelope has an entry named "error" fails;
\* it returns no success value from such an envelope.
ErrorAbortsOperation ==
    (/\ op \in MailOps /\ opPc = "done"
     /\ \E i \in 1..Len(response) : response[i].name = "error") =>
        result.status = "error"

\* C10: sendEmail returns the result of the entry that carries call id "c2"
\* (EmailSubmission/set), whichever position it has in methodResponses.
IsSendResponse(env) ==
    /\ Len(env) = 2
    /\ \E i, j \in 1..2 :
          /\ i # j
          /\ env[i].name = "Email/set" /\ env[i].callId = "c1"
          /\ env[j].name = "EmailSubmission/set" /\ env[j].callId = "c2"

EntryOf(env, callId) == env[CHOOSE i \in 1..Len(env) : env[i].callId = callId]

SendCorrelatesByCallId ==
    (/\ op = "sendEmail" /\ opPc = "done" /\ result.status = "ok"
     /\ IsSendResponse(response)) =>
        result.value = EntryOf(response, "c2").payload

\* C11 (as claimed): when the operation fails for an item, execute still
\* returns, with the failure reported for that item only and a result for
\* every other input item.
FailedItems ==
    {returnData[k].item : k \in {j \in 1..Len(returnData) : returnData[j].error}}
        \cup (IF execOutcome = "thrown" /\ accountId # "none" THEN {index} ELSE {})

FailureIsolated ==
    (execPc = "done" /\ FailedItems # {}) =>
        /\ execOutcome = "returned"
        /\ \A j \in 0..(items - 1) :
              \E k \in 1..Len(returnData) :
                  returnData[k] = IF j \in FailedItems THEN ItemError(j) ELSE ItemData(j)

\* C11 (amended): with continueOnFail on, an execution that got its account
\* returns one entry per item the loop runs over, in item order: the error of
\* an item that failed, the result of every other item.
FailureIsolatedWhenContinuing ==
    (execPc = "done" /\ accountId # "none" /\ continueOnFail) =>
        /\ execOutcome = "returned"
        /\ Len(returnData) = ItemsToProcess(operation, items)
        /\ \A k \in 1..Len(returnData) : returnData[k].item = k - 1

\* C11 witness: with continueOnFail on, an item failed and a later item's
\* result was still returned.
SiblingSurvivedFailure ==
    /\ execPc = "done" /\ execOutcome = "returned" /\ continueOnFail
    /\ \E k \in 1..Len(returnData) : \E l \in 1..Len(returnData) :
          k < l /\ returnData[k].error /\ ~returnData[l].error

\* C12: getAttachments downloads and returns an attachment if and only if it
\* is not inline or includeInline is set, and the comma-separated filter list
\* is empty after trimming or one of its filters matches the attachment's type
\* (case-insensitive equality or, for a filter type/*, case-insensitive prefix
\* type/); the returned items keep the order of the attachment list.
ListedFilters(str) ==
    {Trim(SubSeq(str, p[1], p[2])) :
        p \in {q \in (1..(Len(str) + 1)) \X (0..Len(str)) :
                  /\ q[1] <= q[2] + 1
                  /\ q[1] = 1 \/ str[q[1] - 1] = ","
                  /\ q[2] = Len(str) \/ str[q[2] + 1] = ","
                  /\ \A k \in q[1]..q[2] : str[k] # ","}} \ {<<>>}

FilterMatches(type, f) ==
    \/ ToLowerCase(type) = ToLowerCase(f)
    \/ /\ Len(f) >= 2 /\ f[Len(f) - 1] = "/" /\ f[Len(f)] = "*"
       /\ Len(type) >= Len(f) - 1
       /\ \A k \in 1..(Len(f) - 1) : LowerChar(type[k]) = LowerChar(f[k])

ShouldSelect(attachment, opts) ==
    /\ ~attachment.isInline \/ opts.includeInline
    /\ \/ ListedFilters(opts.mimeTypeFilter) = {}
       \/ \E f \in ListedFilters(opts.mimeTypeFilter) : FilterMatches(attachment.type, f)

RECURSIVE Ascending(_, _)
Ascending(S, from) ==
    IF S = {} THEN <<>>
    ELSE LET k == CHOOSE m \in S : \A l \in S : m <= l
         IN  <<k>> \o Ascending(S \ {k}, k)

AttachmentsSelected ==
    /\ \A k \in Range(downloads) : ShouldSelect(attachments[k], attachmentOptions)
    /\ attOutcome = "returned" =>
          /\ attachmentResults =
                Ascending({k \in 1..Len(attachments) :
                              ShouldSelect(attachments[k], attachmentOptions)}, 0)
          /\ downloads = attachmentResults

\* C12 witness: under the filter "I/*" an i/p attachment was returned and a
\* t/p attachment of the same email was not.
WildcardSelectedSome ==
    /\ attOutcome = "returned"
    /\ attachmentOptions.mimeTypeFilter = <<"I", "/", "*">>
    /\ \E k \in Range(attachmentResults) : attachments[k].type = <<"i", "/", "p">>
    /\ \E k \in 1..Len(attachments) :
          attachments[k].type = <<"t", "/", "p">> /\ k \notin Range(attachmentResults)

\* C13: the download of a selected attachment starts only after the download
\* before it has returned, and a call in which a download fails hands its
\* caller none of the attachments downloaded before the failure.
SequentialAllOrNothing ==
    /\ \A k \in 1..(Len(downloads) - 1) : downloads[k] \in Range(results)
    /\ attOutcome = "thrown" => attachmentResults = <<>>

\* C13 witness: the second download failed after the first had returned.
FailedAfterFirstDownload ==
    /\ attOutcome = "thrown"
    /\ Len(downloads) = 2 /\ Len(results) = 1
    /\ attachmentResults = <<>>

\* C14: getPrimaryAccountId returns the mail entry of session.primaryAccounts
\* when it is present, otherwise the first key of session.accounts, and fails
\* exactly when the entry is absent and accounts is empty.
MailEntryPresent(sess) ==
    sess.primaryAccounts.defined /\ sess.primaryAccounts.mail # "none"

PrimaryAccountResolved ==
    session # NoSession =>
        /\ MailEntryPresent(session) => accountId = session.primaryAccounts.mail
        /\ (~MailEntryPresent(session) /\ Len(session.accounts) > 0) =>
              accountId = Head(ObjectKeys(session.accounts))
        /\ (accountId = "none" /\ execOutcome = "thrown") <=>
              (~MailEntryPresent(session) /\ Len(session.accounts) = 0)

\* C14 witness: primaryAccounts has no mail entry, accounts has two keys, and
\* the execution went on with the first of them.
FellBackToFirstAccount ==
    /\ session # NoSession
    /\ session.primaryAccounts.defined /\ session.primaryAccounts.mail = "none"
    /\ Len(session.accounts) = 2
    /\ accountId = Head(ObjectKeys(session.accounts))
    /\ execPc = "item"

\* C16: every batch request is an HTTP POST to the apiUrl of the session the
\* execution fetched.
BatchPostsToApiUrl ==
    \A request \in http :
        request.method = "POST" => (session # NoSession /\ request.url = session.apiUrl)

\* C15 (as claimed): from any server state of the email, addLabel(X) followed
\* by removeLabel(X) leaves its mailboxIds as they were before addLabel.
AddedThenRemoved(mailboxId) ==
    /\ labelPc = "idle"
    /\ labelLog = <<[name |-> "addLabel", mailboxId |-> mailboxId],
                    [name |-> "removeLabel", mailboxId |-> mailboxId]>>

AddThenRemoveIsNeutral ==
    \A X \in MailboxIdSet : AddedThenRemoved(X) => mailboxIds = initialMailboxIds

\* C15 (amended): the same, from any server state in which the email is not
\* in mailbox X.
AddThenRemoveRestores ==
    \A X \in MailboxIdSet :
        (AddedThenRemoved(X) /\ X \notin initialMailboxIds) =>
            mailboxIds = initialMailboxIds

\* C15 witness: an email in two mailboxes got a third label added and removed.
LabelAddedAndRemoved ==
    /\ AddedThenRemoved("mb3")
    /\ initialMailboxIds = {"mb1", "mb2"}
    /\ mailboxIds = initialMailboxIds

\* C17: when a watermark W is set and every email fetched in the cycle has
\* receivedAt at or before W, poll returns null and lastProcessedTime is still
\* W (the same instant) after the cycle.
BoundaryCycleKeepsWatermark ==
    (/\ CycleReturned /\ HasLastProcessedTime(startTime) /\ Len(emails) > 0
     /\ \A e \in Range(emails) : DateGetTime(store[e]) <= DateGetTime(startTime)) =>
        /\ outcome = "null"
        /\ HasLastProcessedTime(lastProcessedTime)
        /\ DateGetTime(lastProcessedTime) = DateGetTime(startTime)

\* C18: after a cycle that returns a batch, lastProcessedTime is the maximum
\* receivedAt over the emails Email/get returned, in whatever order the
\* server listed them.
WatermarkIsMaximum ==
    outcome = "data" =>
        /\ \E e \in Range(emails) : store[e] = lastProcessedTime
        /\ \A e \in Range(emails) :
              DateGetTime(store[e]) <= DateGetTime(lastProcessedTime)

\* C19: among the requests of sendEmail there is at most one that holds an
\* Email/set or EmailSubmission/set call, exactly one once the drafts mailbox
\* is found, and it is: Email/set creating "draft" in the drafts mailbox with
\* keyword $draft, then EmailSubmission/set with emailId "#draft" and
\* onSuccessDestroyEmail, under two distinct call ids, using core, mail and
\* submission.
SetRequests ==
    {i \in 1..Len(sent) :
        CallNames(sent[i]) \cap {"Email/set", "EmailSubmission/set"} # {}}

IsSendEnvelope(request, draftsId) ==
    /\ request.using = {CORE, MAIL, SUBMISSION}
    /\ Len(request.methodCalls) = 2
    /\ request.methodCalls[1].name = "Email/set"
    /\ request.methodCalls[1].args.create = "draft"
    /\ request.methodCalls[1].args.mailboxId = draftsId
    /\ request.methodCalls[1].args.keyword = "$draft"
    /\ request.methodCalls[2].name = "EmailSubmission/set"
    /\ request.methodCalls[2].args.emailId = "#draft"
    /\ request.methodCalls[2].args.onSuccessDestroyEmail = "#send"
    /\ request.methodCalls[1].callId # request.methodCalls[2].callId

SendEnvelopeShape ==
    op = "sendEmail" =>
        /\ Cardinality(SetRequests) <= 1
        /\ HasRole(mailboxes, "drafts") => Cardinality(SetRequests) = 1
        /\ \A i \in SetRequests :
              /\ HasRole(mailboxes, "drafts")
              /\ IsSendEnvelope(sent[i],
                    (CHOOSE mb \in Range(mailboxes) : mb.role = "drafts").id)

\* C19 witness: sendEmail found the drafts mailbox, sent its envelope and
\* returned.
SendEnvelopeSent ==
    /\ op = "sendEmail" /\ opPc = "done" /\ result.status = "ok"
    /\ Len(sent) = 2 /\ SetRequests = {2}

\* C20: in every request envelope of every operation, `using` holds core and
\* the capability of each method call: mail for Email/*, Mailbox/* and
\* Thread/*, submission for EmailSubmission/* and Identity/*.
RequiredCapability(name) ==
    IF name \in {"EmailSubmission/set", "Identity/get"} THEN SUBMISSION ELSE MAIL

CapabilityInvariant ==
    \A i \in 1..Len(sent) :
        /\ CORE \in sent[i].using
        /\ \A k \in 1..Len(sent[i].methodCalls) :
              RequiredCapability(sent[i].methodCalls[k].name) \in sent[i].using

\* C20 witness: getIdentities sent Identity/get under core and submission.
IdentitiesUnderSubmission ==
    /\ op = "getIdentities" /\ Len(sent) = 1
    /\ sent[1].methodCalls[1].name = "Identity/get"
    /\ sent[1].using = {CORE, SUBMISSION}

\* C21: moveEmail sends one Email/set whose update replaces the whole
\* mailboxIds map, and after the move the email's mailboxIds on the server is
\* the singleton of the target, whatever mailboxes held it before.
LastLabelOp == labelLog[Len(labelLog)]

MoveReplacesMailboxIds ==
    /\ labelCall.name = "moveEmail" => labelCall.patch.path = "mailboxIds"
    /\ (labelPc = "idle" /\ Len(labelLog) > 0 /\ LastLabelOp.name = "moveEmail") =>
          mailboxIds = {LastLabelOp.mailboxId}

\* C21 witness: an email in two mailboxes was moved to a third.
MovedOutOfTwoMailboxes ==
    /\ labelPc = "idle"
    /\ labelLog = <<[name |-> "moveEmail", mailboxId |-> "mb3"]>>
    /\ initialMailboxIds = {"mb1", "mb2"}
    /\ mailboxIds = {"mb3"}

\* C22: for an email that is returned, getLabels returns one label per key of
\* its mailboxIds, in key order: the listed mailbox's id, name, role,
\* totalEmails and unreadEmails when the key is a listed mailbox's id, and
\* {id, name: null, role: null} when it is not; it fails only when the email
\* is not returned.
Listed(list, key) == {i \in 1..Len(list) : list[i].id = key}

GetLabelsToleratesUnresolved ==
    /\ labelsOutcome = "returned" =>
          /\ Len(labels) = Len(ObjectKeys(emailKeys))
          /\ \A k \in 1..Len(labels) :
                LET key == ObjectKeys(emailKeys)[k]
                    found == Listed(allMailboxes, key)
                IN  /\ labels[k].id = key
                    /\ found = {} => labels[k].name = "null" /\ labels[k].role = "null"
                    /\ found # {} =>
                          \E i \in found :
                              /\ labels[k].name = allMailboxes[i].name
                              /\ labels[k].role = allMailboxes[i].role
                              /\ labels[k].totalEmails = allMailboxes[i].totalEmails
                              /\ labels[k].unreadEmails = allMailboxes[i].unreadEmails
    /\ (labelsPc = "done" /\ labelsOutcome # "request failed") =>
          /\ emailReturned = "yes" => labelsOutcome = "returned"
          /\ emailReturned = "no" => labelsOutcome = "Email not found"

\* C22 witness: of two keys, the first was not in the mailbox list and the
\* second was; both got a label.
UnresolvedKeyGotPlaceholder ==
    /\ labelsOutcome = "returned" /\ Len(labels) = 2
    /\ Listed(allMailboxes, labels[1].id) = {} /\ labels[1].name = "null"
    /\ Listed(allMailboxes, labels[2].id) # {} /\ labels[2].name # "null"


\* C23: the reply goes to the original's replyTo, or to its from when replyTo
\* is absent or an empty list; its inReplyTo, references and threadId are the
\* original's; and when the original is not found no Email/set or
\* EmailSubmission/set is sent.
ReplyIsBuilt == email # NoEmail

ReplyFollowsOriginal ==
    /\ ReplyIsBuilt =>
          /\ email.to = (IF originalEmail.replyTo.items = <<>>
                         THEN originalEmail.from ELSE originalEmail.replyTo)
          /\ email.inReplyTo = originalEmail.inReplyTo
          /\ email.references = originalEmail.references
          /\ email.threadId = originalEmail.threadId
    /\ replyOutcome = "Original email not found" =>
          \A k \in 1..Len(replyRequests) :
              replyRequests[k] \notin {"Email/set", "EmailSubmission/set"}


\* C24: every HTTP request sent (session GET, batch POST, blob download) is
\* authenticated by the configured strategy: under jmapOAuth2Api it goes
\* through the OAuth2 helper with the jmapOAuth2Api credential; under jmapApi
\* it carries Authorization "Basic base64(email:password)" for basicAuth and
\* "Bearer <accessToken>" for bearerToken; none goes out without credentials.
Authenticated(request) ==
    IF authType = "jmapOAuth2Api"
    THEN /\ request.helper = "httpRequestWithAuthentication"
         /\ request.credentialType = "jmapOAuth2Api"
    ELSE /\ request.authorization # <<>>
         /\ credentials.authMethod = "bearerToken" =>
               request.authorization = BearerPrefix \o credentials.accessToken
         /\ credentials.authMethod \in {"", "basicAuth"} =>
               request.authorization =
                   BasicPrefix \o Base64(credentials.email \o <<":">> \o credentials.password)

EveryRequestAuthenticated == \A k \in 1..Len(wire) : Authenticated(wire[k])

\* C24 witness: under basicAuth for b / p, downloadBlob has sent its session
\* GET and its download GET, both with "Basic Yjpw".
BlobDownloadedWithBasicAuth ==
    /\ authType = "jmapApi" /\ credentials.authMethod = "basicAuth"
    /\ httpFunction = "downloadBlob" /\ httpPc = "done" /\ Len(wire) = 2
    /\ wire[1].target = "/session" /\ wire[2].target = "downloadUrl"
    /\ \A k \in 1..2 : wire[k].authorization = BasicPrefix \o <<"Y", "j", "p", "w">>

\* C25: a batch reply without methodResponses makes jmapApiRequest itself
\* fail with an error, instead of returning the reply to its caller.
MalformedEnvelopeRejected ==
    (httpFunction = "jmapApiRequest" /\ httpPc = "done"
        /\ httpReply.received /\ ~httpReply.methodResponses) =>
        httpOutcome.status = "thrown"


\* C26: after markAsRead or markAsUnread, every keyword other than $seen
\* that the email had before is still set, and no other keyword was added.
OnlySeenChanges ==
    (keywordPc = "done" /\ keywordCall.name \in {"markAsRead", "markAsUnread"}) =>
        keywords \ {"$seen"} = keywordsBefore \ {"$seen"}


\* C27: every email the server held when a cycle started, with receivedAt
\* after the watermark of that start (any email when there was no watermark),
\* is emitted by that cycle or by a later one. An email the watermark has
\* moved past is matched by no later query, so the step in which a cycle
\* returns leaves every such email in its batch or among those emitted
\* before, or leaves the watermark not past it. Checked where no mail arrives
\* while a cycle runs, so that every email held was held at the start.
NewAtStart(e) ==
    startTime = Unset \/ DateGetTime(store[e]) > DateGetTime(startTime)

CycleReturns == pc = "get" /\ pc' = "idle" /\ outcome' \in {"data", "null"}

NoLostMail ==
    [][CycleReturns =>
          \A e \in 1..Len(store) :
              (/\ NewAtStart(e)
               /\ lastProcessedTime' # Unset
               /\ DateGetTime(store[e]) < DateGetTime(lastProcessedTime')) =>
                  e \in Range(batch') \cup emittedBefore']_vars

\* C28: a cycle whose session fetch, Email/query or Email/get failed raises
\* the error, returns no batch and leaves lastProcessedTime as it was when
\* the cycle started.
FailedCycleKeepsWatermark ==
    (pc = "idle" /\ outcome = "error") =>
        /\ lastProcessedTime = startTime
        /\ batch = <<>>
        /\ emails = <<>>

\* C28 witness: with a watermark set, a cycle failed at its Email/get.
FailedAtEmailGet ==
    /\ pc = "idle" /\ outcome = "error"
    /\ startTime # Unset /\ lastProcessedTime = startTime
    /\ requests = <<"session", "Email/query", "Email/get">>


\* C29: sendEmail returns without error only if the EmailSubmission/set
\* entry of the reply reports the submission as created; a reply whose
\* Email/set or EmailSubmission/set entry lists the creation under notCreated
\* makes sendEmail fail. Stated for replies that answer both calls in order
\* with their own call ids; payload "r1" is a result with the creation under
\* created, "r2" one with it under notCreated.
AnswersBothCalls(env) ==
    /\ Len(env) = 2
    /\ env[1].name = "Email/set" /\ env[1].callId = "c1"
    /\ env[2].name = "EmailSubmission/set" /\ env[2].callId = "c2"

SendSuccessMeansSubmitted ==
    (/\ op = "sendEmail" /\ opPc = "done"
     /\ AnswersBothCalls(response)
     /\ result.status = "ok") =>
        /\ CreatedDraft(response[1].payload) # "none"
        /\ response[2].payload = "r1"


\* C30: an execution that returns has run getMany exactly once, for item 0,
\* however many input items there were (none included), and any other
\* operation once per input item, in item order: returnData holds one entry
\* per run, tagged with the item it was run for.
RunsExpected == IF operation = "getMany" THEN 1 ELSE items

GetManyRunsOnce ==
    /\ execOutcome = "returned" =>
          /\ Len(returnData) = RunsExpected
          /\ \A k \in 1..Len(returnData) : returnData[k].item = k - 1
    /\ execPc \in {"item", "call"} => index < RunsExpected

\* C30 witness: getMany over three input items returned the data of one run.
GetManyOverThreeItems ==
    /\ operation = "getMany" /\ items = 3
    /\ execOutcome = "returned"
    /\ returnData = <<ItemData(0)>>

====
